---- MODULE Spec2Model ----
(***************************************************************************)
(* The signal dispatch bridge of the gtk binding layer (src/src/signal.rs, *)
(* src/src/auto/list_box_row.rs): connect_* operations hand a boxed        *)
(* closure and a trampoline to the native layer, idle_add/timeout_add hand *)
(* a boxed closure, a trampoline and destroy_closure to the native main    *)
(* loop, and the native layer calls the trampolines back.                  *)
(*                                                                         *)
(* The native layer (signal registration, emission, disconnection, object  *)
(* reference counting, the main loop) is not part of the repository; it is *)
(* modelled as the environment of the bridge.                              *)
(***************************************************************************)
EXTENDS Integers, Sequences, FiniteSets, TLC

VARIABLES
    initialized,       \* gtk::init has run (on the main thread)
    debug_assertions,  \* cfg!(debug_assertions) of the build
    objects,           \* native objects: state and reference count
    heap,              \* boxed closures, one record per Box::into_raw
    handlers,          \* native registrations, indexed by subscription id
    stack,             \* dispatches in progress, innermost last
    exit_status,       \* <<>> while running, <<status>> once the process exited
    panic,             \* the panic unwinding on the dispatching thread, if any
    escaped,           \* an unwind crossed a trampoline into native code
    call               \* the registration whose marshalling is followed

vars == <<initialized, debug_assertions, objects, heap, handlers, stack,
          exit_status, panic, escaped, call>>

-----------------------------------------------------------------------------
(* Bounds of the model *)

MaxAllocs == 2      \* closures boxed in one run
MaxDepth == 2       \* dispatches in progress at once
MaxCalls == 2       \* invocations of one closure
MaxStrLen == 1      \* bytes of a native string argument
MaxCode == 12       \* magnitude of the small integers converted to an enum

-----------------------------------------------------------------------------
(* Program constants *)

PanicExitCode == 101

Threads == {"main", "other"}
MainThread == "main"

\* The native object of the model is a SpinButton, which is an Entry and a
\* Widget.  Of the types the binding connects to, four are no widgets.
Objects == {1}
TypeOf(o) == "SpinButton"
NonWidgets == {"Adjustment", "StatusIcon", "TreeSelection", "TreeViewColumn"}
IsA(type, class) ==
    \/ class = type
    \/ class = "Widget" /\ type \notin NonWidgets
    \/ type = "SpinButton" /\ class = "Entry"

\* The bytes a native string argument is built from: 'A', the two bytes of
\* U+00E9, and a byte that occurs in no UTF-8 text.
Bytes == {65, 195, 169, 255}

RECURSIVE SeqsUpTo(_, _)
SeqsUpTo(S, n) ==
    IF n = 0 THEN {<<>>}
    ELSE LET shorter == SeqsUpTo(S, n - 1)
         IN  shorter \cup {Append(s, b) : s \in {x \in shorter : Len(x) = n - 1}, b \in S}

CStrings == SeqsUpTo(Bytes, MaxStrLen)

-----------------------------------------------------------------------------
(* Marshalling primitives *)

\* str::from_utf8: whether the bytes are well-formed UTF-8.
IsCont(b) == b >= 128 /\ b <= 191

RECURSIVE from_utf8_ok(_)
from_utf8_ok(s) ==
    IF s = <<>> THEN TRUE
    ELSE LET b == Head(s)
             n == Len(s)
             rest(k) == SubSeq(s, k + 1, n)
         IN  IF b < 128 THEN from_utf8_ok(rest(1))
             ELSE IF b >= 194 /\ b <= 223
             THEN n >= 2 /\ IsCont(s[2]) /\ from_utf8_ok(rest(2))
             ELSE IF b >= 224 /\ b <= 239
             THEN /\ n >= 3
                  /\ IsCont(s[2]) /\ IsCont(s[3])
                  /\ (b = 224 => s[2] >= 160)
                  /\ (b = 237 => s[2] <= 159)
                  /\ from_utf8_ok(rest(3))
             ELSE IF b >= 240 /\ b <= 244
             THEN /\ n >= 4
                  /\ IsCont(s[2]) /\ IsCont(s[3]) /\ IsCont(s[4])
                  /\ (b = 240 => s[2] >= 144)
                  /\ (b = 244 => s[2] <= 143)
                  /\ from_utf8_ok(rest(4))
             ELSE FALSE

\* String::from_utf8_lossy: every maximal ill-formed part becomes U+FFFD.
Replacement == <<239, 191, 189>>

RECURSIVE from_utf8_lossy(_)
from_utf8_lossy(s) ==
    IF s = <<>> THEN <<>>
    ELSE LET b == Head(s)
             n == Len(s)
         IN  IF b < 128 THEN <<b>> \o from_utf8_lossy(Tail(s))
             ELSE IF b >= 194 /\ b <= 223 /\ n >= 2 /\ IsCont(s[2])
             THEN <<b, s[2]>> \o from_utf8_lossy(SubSeq(s, 3, n))
             ELSE IF n >= 3 /\ from_utf8_ok(SubSeq(s, 1, 3))
             THEN SubSeq(s, 1, 3) \o from_utf8_lossy(SubSeq(s, 4, n))
             ELSE IF n >= 4 /\ from_utf8_ok(SubSeq(s, 1, 4))
             THEN SubSeq(s, 1, 4) \o from_utf8_lossy(SubSeq(s, 5, n))
             ELSE Replacement \o from_utf8_lossy(Tail(s))

\* gboolean of a bool, Inhibit or Continue.
to_glib(b) == IF b THEN 1 ELSE 0

-----------------------------------------------------------------------------
(* The connect_* operations of the binding and the native signal table *)

ConnectOps == {
    [op |-> "WidgetSignals::connect_button_press_event", on |-> "Widget",
     sig |-> "button-press-event", tramp |-> "widget::event_button_trampoline"],
    [op |-> "EntrySignals::connect_insert_at_cursor", on |-> "Entry",
     sig |-> "insert_at_cursor", tramp |-> "entry::string_trampoline"],
    [op |-> "SpinButtonSignals::connect_wrapped", on |-> "SpinButton",
     sig |-> "clicked", tramp |-> "spin_button::void_trampoline"] }

\* The signals the native toolkit defines for a type ('-' and '_' are the
\* same separator to the native lookup).
NativeSignals(type) ==
    (IF IsA(type, "Widget") THEN {"button-press-event"} ELSE {}) \cup
    (IF IsA(type, "Entry") THEN {"insert_at_cursor"} ELSE {}) \cup
    (IF IsA(type, "SpinButton") THEN {"value-changed", "wrapped"} ELSE {}) \cup
    (IF IsA(type, "Button") THEN {"clicked"} ELSE {})

\* What a trampoline hands back to the native dispatcher.
ReturnsBool(tramp) == tramp \in {"widget::event_button_trampoline", "trampoline"}
TakesString(tramp) == tramp = "entry::string_trampoline"

-----------------------------------------------------------------------------
(* Every connect_* operation and every trampoline of the binding *)

\* One connect_<name>: the trait or type that declares it, the class of the
\* handle, <name> and the registered signal name as words (sep is the
\* separator the registered name is written with), the closure type that
\* is boxed, and the trampoline passed to connect.
Op(trait, on, name, sig, sep, args, ret, tramp) ==
    [trait |-> trait, on |-> on, name |-> name, sig |-> sig, sep |-> sep,
     boxed |-> [args |-> args, ret |-> ret], tramp |-> tramp]

\* One trampoline: the declared types of its native parameters after `this`
\* and before the user-data, the closure type it reads the user-data as, its
\* native return type, and how each closure argument after the handle is
\* made: <<conversion, index of the native parameter>>.
Tr(name, params, args, ret, native, how) ==
    [name |-> name, params |-> params, reads |-> [args |-> args, ret |-> ret],
     ret |-> native, how |-> how]

Connects == {
    Op("WidgetSignals", "Widget", <<"notify">>, <<"notify">>, "",
       <<"&Widget", "&ParamSpec">>, "()", "widget::notify_trampoline"),
    Op("WidgetSignals", "Widget", <<"accel", "closures", "changed">>,
       <<"accel", "closures", "changed">>, "-", <<"&Widget">>, "()",
       "widget::void_trampoline"),
    Op("WidgetSignals", "Widget", <<"button", "press", "event">>,
       <<"button", "press", "event">>, "-", <<"&Widget", "&EventButton">>,
       "Inhibit", "widget::event_button_trampoline"),
    Op("WidgetSignals", "Widget", <<"button", "release", "event">>,
       <<"button", "release", "event">>, "-", <<"&Widget", "&EventButton">>,
       "Inhibit", "widget::event_button_trampoline"),
    Op("WidgetSignals", "Widget", <<"can", "activate", "accel">>,
       <<"can", "activate", "accel">>, "-", <<"&Widget", "u64">>, "bool",
       "widget::accel_trampoline"),
    Op("WidgetSignals", "Widget", <<"child", "notify">>, <<"child", "notify">>,
       "-", <<"&Widget", "&ParamSpec">>, "()", "widget::notify_trampoline"),
    Op("WidgetSignals", "Widget", <<"composited", "changed">>,
       <<"composited", "changed">>, "-", <<"&Widget">>, "()",
       "widget::void_trampoline"),
    Op("WidgetSignals", "Widget", <<"configure", "event">>,
       <<"configure", "event">>, "-", <<"&Widget", "&EventConfigure">>,
       "Inhibit", "widget::event_configure_trampoline"),
    Op("WidgetSignals", "Widget", <<"damage", "event">>, <<"damage", "event">>,
       "-", <<"&Widget", "&EventExpose">>, "Inhibit",
       "widget::event_expose_trampoline"),
    Op("WidgetSignals", "Widget", <<"delete", "event">>, <<"delete", "event">>,
       "-", <<"&Widget", "&EventAny">>, "Inhibit",
       "widget::event_any_trampoline"),
    Op("WidgetSignals", "Widget", <<"destroy">>, <<"destroy">>, "",
       <<"&Widget">>, "()", "widget::void_trampoline"),
    Op("WidgetSignals", "Widget", <<"destroy", "event">>,
       <<"destroy", "event">>, "-", <<"&Widget", "&EventAny">>, "Inhibit",
       "widget::event_any_trampoline"),
    Op("WidgetSignals", "Widget", <<"direction", "changed">>,
       <<"direction", "changed">>, "-", <<"&Widget", "TextDirection">>, "()",
       "widget::text_direction_trampoline"),
    Op("WidgetSignals", "Widget", <<"draw">>, <<"draw">>, "",
       <<"&Widget", "&Context">>, "Inhibit", "widget::draw_trampoline"),
    Op("WidgetSignals", "Widget", <<"enter", "notify", "event">>,
       <<"enter", "notify", "event">>, "-", <<"&Widget", "&EventCrossing">>,
       "Inhibit", "widget::event_crossing_trampoline"),
    Op("WidgetSignals", "Widget", <<"event">>, <<"event">>, "",
       <<"&Widget", "&EventAny">>, "Inhibit", "widget::event_any_trampoline"),
    Op("WidgetSignals", "Widget", <<"event", "after">>, <<"event", "after">>,
       "-", <<"&Widget", "&EventAny">>, "()", "widget::event_any_trampoline"),
    Op("WidgetSignals", "Widget", <<"focus">>, <<"focus">>, "",
       <<"&Widget", "DirectionType">>, "Inhibit",
       "widget::direction_trampoline"),
    Op("WidgetSignals", "Widget", <<"focus", "in", "event">>,
       <<"focus", "in", "event">>, "-", <<"&Widget", "&EventFocus">>, "Inhibit",
       "widget::event_focus_trampoline"),
    Op("WidgetSignals", "Widget", <<"focus", "out", "event">>,
       <<"focus", "out", "event">>, "-", <<"&Widget", "&EventFocus">>,
       "Inhibit", "widget::event_focus_trampoline"),
    Op("WidgetSignals", "Widget", <<"grab", "broken", "event">>,
       <<"grab", "broken", "event">>, "-", <<"&Widget", "&EventGrabBroken">>,
       "Inhibit", "widget::event_grab_broken_trampoline"),
    Op("WidgetSignals", "Widget", <<"grab", "focus">>, <<"grab", "focus">>, "-",
       <<"&Widget">>, "()", "widget::void_trampoline"),
    Op("WidgetSignals", "Widget", <<"grab", "notify">>, <<"grab", "notify">>,
       "-", <<"&Widget", "bool">>, "()", "widget::grab_trampoline"),
    Op("WidgetSignals", "Widget", <<"hide">>, <<"hide">>, "", <<"&Widget">>,
       "()", "widget::void_trampoline"),
    Op("WidgetSignals", "Widget", <<"keynav", "failed">>,
       <<"keynav", "failed">>, "-", <<"&Widget", "DirectionType">>, "Inhibit",
       "widget::direction_trampoline"),
    Op("WidgetSignals", "Widget", <<"key", "press", "event">>,
       <<"key", "press", "event">>, "-", <<"&Widget", "&EventKey">>, "Inhibit",
       "widget::event_key_trampoline"),
    Op("WidgetSignals", "Widget", <<"key", "release", "event">>,
       <<"key", "release", "event">>, "-", <<"&Widget", "&EventKey">>,
       "Inhibit", "widget::event_key_trampoline"),
    Op("WidgetSignals", "Widget", <<"leave", "notify", "event">>,
       <<"leave", "notify", "event">>, "-", <<"&Widget", "&EventCrossing">>,
       "Inhibit", "widget::event_crossing_trampoline"),
    Op("WidgetSignals", "Widget", <<"map">>, <<"map">>, "", <<"&Widget">>, "()",
       "widget::void_trampoline"),
    Op("WidgetSignals", "Widget", <<"map", "event">>, <<"map", "event">>, "-",
       <<"&Widget", "&EventAny">>, "Inhibit", "widget::event_any_trampoline"),
    Op("WidgetSignals", "Widget", <<"mnemonic", "activate">>,
       <<"mnemonic", "activate">>, "-", <<"&Widget", "bool">>, "Inhibit",
       "widget::mnemonic_trampoline"),
    Op("WidgetSignals", "Widget", <<"move", "focus">>, <<"move", "focus">>, "-",
       <<"&Widget", "DirectionType">>, "()",
       "widget::direction_void_trampoline"),
    Op("WidgetSignals", "Widget", <<"motion", "notify", "event">>,
       <<"motion", "notify", "event">>, "-", <<"&Widget", "&EventMotion">>,
       "Inhibit", "widget::event_motion_trampoline"),
    Op("WidgetSignals", "Widget", <<"property", "notify", "event">>,
       <<"property", "notify", "event">>, "-", <<"&Widget", "&EventProperty">>,
       "Inhibit", "widget::event_property_trampoline"),
    Op("WidgetSignals", "Widget", <<"proximity", "in", "event">>,
       <<"proximity", "in", "event">>, "-", <<"&Widget", "&EventProximity">>,
       "Inhibit", "widget::event_proximity_trampoline"),
    Op("WidgetSignals", "Widget", <<"proximity", "out", "event">>,
       <<"proximity", "out", "event">>, "-", <<"&Widget", "&EventProximity">>,
       "Inhibit", "widget::event_proximity_trampoline"),
    Op("WidgetSignals", "Widget", <<"popup", "menu">>, <<"popup", "menu">>, "-",
       <<"&Widget">>, "bool", "widget::bool_trampoline"),
    Op("WidgetSignals", "Widget", <<"query", "tooltip">>,
       <<"query", "tooltip">>, "-",
       <<"&Widget", "i32", "i32", "bool", "Tooltip">>, "bool",
       "widget::query_trampoline"),
    Op("WidgetSignals", "Widget", <<"realize">>, <<"realize">>, "",
       <<"&Widget">>, "()", "widget::void_trampoline"),
    Op("WidgetSignals", "Widget", <<"screen", "changed">>,
       <<"screen", "changed">>, "-", <<"&Widget", "&Screen">>, "()",
       "widget::screen_trampoline"),
    Op("WidgetSignals", "Widget", <<"scroll", "event">>, <<"scroll", "event">>,
       "-", <<"&Widget", "&EventScroll">>, "Inhibit",
       "widget::event_scroll_trampoline"),
    Op("WidgetSignals", "Widget", <<"show">>, <<"show">>, "", <<"&Widget">>,
       "()", "widget::void_trampoline"),
    Op("WidgetSignals", "Widget", <<"show", "help">>, <<"show", "help">>, "-",
       <<"&Widget", "WidgetHelpType">>, "bool", "widget::help_trampoline"),
    Op("WidgetSignals", "Widget", <<"size", "allocate">>,
       <<"size", "allocate">>, "-", <<"&Widget", "&RectangleInt">>, "()",
       "widget::rectangle_trampoline"),
    Op("WidgetSignals", "Widget", <<"state", "flags", "changed">>,
       <<"state", "flags", "changed">>, "-", <<"&Widget", "StateFlags">>, "()",
       "widget::state_trampoline"),
    Op("WidgetSignals", "Widget", <<"style", "updated">>,
       <<"style", "updated">>, "-", <<"&Widget">>, "()",
       "widget::void_trampoline"),
    Op("WidgetSignals", "Widget", <<"touch", "event">>, <<"touch", "event">>,
       "-", <<"&Widget", "&EventAny">>, "Inhibit",
       "widget::event_any_trampoline"),
    Op("WidgetSignals", "Widget", <<"unmap">>, <<"unmap">>, "", <<"&Widget">>,
       "()", "widget::void_trampoline"),
    Op("WidgetSignals", "Widget", <<"unmap", "event">>, <<"unmap", "event">>,
       "-", <<"&Widget", "&EventAny">>, "Inhibit",
       "widget::event_any_trampoline"),
    Op("WidgetSignals", "Widget", <<"unrealize">>, <<"unrealize">>, "",
       <<"&Widget">>, "()", "widget::void_trampoline"),
    Op("WidgetSignals", "Widget", <<"window", "state", "event">>,
       <<"window", "state", "event">>, "-", <<"&Widget", "&EventWindowState">>,
       "Inhibit", "widget::event_window_state_trampoline"),
    Op("EntrySignals", "Entry", <<"activate">>, <<"activate">>, "",
       <<"&Entry">>, "()", "entry::void_trampoline"),
    Op("EntrySignals", "Entry", <<"backspace">>, <<"backspace">>, "",
       <<"&Entry">>, "()", "entry::void_trampoline"),
    Op("EntrySignals", "Entry", <<"copy", "clipboard">>,
       <<"copy", "clipboard">>, "_", <<"&Entry">>, "()",
       "entry::void_trampoline"),
    Op("EntrySignals", "Entry", <<"cut", "clipboard">>, <<"cut", "clipboard">>,
       "_", <<"&Entry">>, "()", "entry::void_trampoline"),
    Op("EntrySignals", "Entry", <<"paste", "clipboard">>,
       <<"paste", "clipboard">>, "_", <<"&Entry">>, "()",
       "entry::void_trampoline"),
    Op("EntrySignals", "Entry", <<"toggle", "overwrite">>,
       <<"toggle", "overwrite">>, "_", <<"&Entry">>, "()",
       "entry::void_trampoline"),
    Op("EntrySignals", "Entry", <<"delete", "from", "cursor">>,
       <<"delete", "from", "cursor">>, "_", <<"&Entry", "DeleteType", "i32">>,
       "()", "entry::delete_trampoline"),
    Op("EntrySignals", "Entry", <<"move", "cursor">>, <<"move", "cursor">>, "_",
       <<"&Entry", "MovementStep", "i32", "bool">>, "()",
       "entry::move_cursor_trampoline"),
    Op("EntrySignals", "Entry", <<"insert", "at", "cursor">>,
       <<"insert", "at", "cursor">>, "_", <<"&Entry", "&str">>, "()",
       "entry::string_trampoline"),
    Op("EntrySignals", "Entry", <<"preedit", "changed">>,
       <<"preedit", "changed">>, "_", <<"&Entry", "&str">>, "()",
       "entry::string_trampoline"),
    Op("ButtonSignals", "Button", <<"activate">>, <<"activate">>, "",
       <<"&Button">>, "()", "button::void_trampoline"),
    Op("ButtonSignals", "Button", <<"clicked">>, <<"clicked">>, "",
       <<"&Button">>, "()", "button::void_trampoline"),
    Op("ComboBoxSignals", "ComboBox", <<"changed">>, <<"changed">>, "",
       <<"&ComboBox">>, "()", "combobox::void_trampoline"),
    Op("ComboBoxSignals", "ComboBox", <<"move", "active">>,
       <<"move", "active">>, "-", <<"&ComboBox", "ScrollType">>, "()",
       "combobox::move_trampoline"),
    Op("ComboBoxSignals", "ComboBox", <<"popdown">>, <<"popdown">>, "",
       <<"&ComboBox">>, "bool", "combobox::bool_trampoline"),
    Op("ComboBoxSignals", "ComboBox", <<"popup">>, <<"popup">>, "",
       <<"&ComboBox">>, "()", "combobox::void_trampoline"),
    Op("ToolButtonSignals", "ToolButton", <<"clicked">>, <<"clicked">>, "",
       <<"&ToolButton">>, "()", "tool_button::void_trampoline"),
    Op("SpinButtonSignals", "SpinButton", <<"value", "changed">>,
       <<"value", "changed">>, "-", <<"&SpinButton">>, "()",
       "spin_button::void_trampoline"),
    Op("SpinButtonSignals", "SpinButton", <<"wrapped">>, <<"clicked">>, "",
       <<"&SpinButton">>, "()", "spin_button::void_trampoline"),
    Op("DialogSignals", "Dialog", <<"close">>, <<"close">>, "", <<"&Dialog">>,
       "()", "dialog::void_trampoline"),
    Op("DialogSignals", "Dialog", <<"response">>, <<"response">>, "",
       <<"&Dialog", "i32">>, "()", "dialog::int_trampoline"),
    Op("TreeViewSignals", "TreeView", <<"columns", "changed">>,
       <<"columns", "changed">>, "-", <<"&TreeView">>, "()",
       "tree_view::void_trampoline"),
    Op("TreeViewSignals", "TreeView", <<"cursor", "changed">>,
       <<"cursor", "changed">>, "-", <<"&TreeView">>, "()",
       "tree_view::void_trampoline"),
    Op("TreeViewSignals", "TreeView", <<"expand", "collapse", "cursor", "row">>,
       <<"expand", "collapse", "cursor", "row">>, "-",
       <<"&TreeView", "bool", "bool", "bool">>, "bool",
       "tree_view::bool3_bool_trampoline"),
    Op("TreeViewSignals", "TreeView", <<"row", "activated">>,
       <<"row", "activated">>, "-",
       <<"&TreeView", "&mut TreePath", "&TreeViewColumn">>, "()",
       "tree_view::path_column_trampoline"),
    Op("TreeViewSignals", "TreeView", <<"row", "collapsed">>,
       <<"row", "collapsed">>, "-",
       <<"&TreeView", "&mut TreeIter", "&mut TreePath">>, "()",
       "tree_view::iter_path_trampoline"),
    Op("TreeViewSignals", "TreeView", <<"row", "expanded">>,
       <<"row", "expanded">>, "-",
       <<"&TreeView", "&mut TreeIter", "&mut TreePath">>, "()",
       "tree_view::iter_path_trampoline"),
    Op("TreeViewSignals", "TreeView", <<"select", "all">>, <<"select", "all">>,
       "-", <<"&TreeView">>, "bool", "tree_view::bool_trampoline"),
    Op("TreeViewSignals", "TreeView", <<"select", "cursor", "parent">>,
       <<"select", "cursor", "parent">>, "-", <<"&TreeView">>, "bool",
       "tree_view::bool_trampoline"),
    Op("TreeViewSignals", "TreeView", <<"select", "cursor", "row">>,
       <<"select", "cursor", "row">>, "-", <<"&TreeView", "bool">>, "bool",
       "tree_view::bool_bool_trampoline"),
    Op("TreeViewSignals", "TreeView", <<"start", "interactive", "search">>,
       <<"start", "interactive", "search">>, "-", <<"&TreeView">>, "bool",
       "tree_view::bool_trampoline"),
    Op("TreeViewSignals", "TreeView", <<"test", "collapse", "row">>,
       <<"test", "collapse", "row">>, "-",
       <<"&TreeView", "&mut TreeIter", "&mut TreePath">>, "bool",
       "tree_view::iter_path_bool_trampoline"),
    Op("TreeViewSignals", "TreeView", <<"test", "expand", "row">>,
       <<"test", "expand", "row">>, "-",
       <<"&TreeView", "&mut TreeIter", "&mut TreePath">>, "bool",
       "tree_view::iter_path_bool_trampoline"),
    Op("TreeViewSignals", "TreeView", <<"toggle", "cursor", "row">>,
       <<"toggle", "cursor", "row">>, "-", <<"&TreeView">>, "bool",
       "tree_view::bool_trampoline"),
    Op("TreeViewSignals", "TreeView", <<"unselect", "all">>,
       <<"unselect", "all">>, "-", <<"&TreeView">>, "bool",
       "tree_view::bool_trampoline"),
    Op("RangeSignals", "Range", <<"adjust", "bounds">>, <<"adjust", "bounds">>,
       "-", <<"&Range", "f64">>, "()", "range::adjust_trampoline"),
    Op("RangeSignals", "Range", <<"change", "value">>, <<"change", "value">>,
       "-", <<"&Range", "ScrollType", "f64">>, "Inhibit",
       "range::change_trampoline"),
    Op("RangeSignals", "Range", <<"move", "slider">>, <<"move", "slider">>, "-",
       <<"&Range", "ScrollType">>, "()", "range::move_trampoline"),
    Op("RangeSignals", "Range", <<"value", "changed">>, <<"value", "changed">>,
       "-", <<"&Range">>, "()", "range::void_trampoline"),
    Op("Adjustment", "Adjustment", <<"value", "changed">>,
       <<"value", "changed">>, "-", <<"&Adjustment">>, "()",
       "adjustment_trampoline"),
    Op("TreeSelection", "TreeSelection", <<"changed">>, <<"changed">>, "",
       <<"&TreeSelection">>, "()", "tree_selection_trampoline"),
    Op("TreeViewColumn", "TreeViewColumn", <<"clicked">>, <<"clicked">>, "",
       <<"&TreeViewColumn">>, "()", "tree_view_column_trampoline"),
    Op("GLArea", "GLArea", <<"create", "context">>, <<"create", "context">>,
       "-", <<"&GLArea">>, "gdk::GLContext", "gl_area::gl_context_trampoline"),
    Op("GLArea", "GLArea", <<"render">>, <<"render">>, "",
       <<"&GLArea", "gdk::GLContext">>, "Inhibit",
       "gl_area::gl_area_trampoline"),
    Op("GLArea", "GLArea", <<"resize">>, <<"resize">>, "",
       <<"&GLArea", "i32", "i32">>, "()", "gl_area::gl_area_trampoline_res"),
    Op("CalendarSignals", "Calendar", <<"day", "selected">>,
       <<"day", "selected">>, "-", <<"&Calendar">>, "()",
       "calendar::void_trampoline"),
    Op("CalendarSignals", "Calendar", <<"day", "selected", "double", "click">>,
       <<"day", "selected", "double", "click">>, "-", <<"&Calendar">>, "()",
       "calendar::void_trampoline"),
    Op("CalendarSignals", "Calendar", <<"month", "changed">>,
       <<"month", "changed">>, "-", <<"&Calendar">>, "()",
       "calendar::void_trampoline"),
    Op("CalendarSignals", "Calendar", <<"next", "month">>, <<"next", "month">>,
       "-", <<"&Calendar">>, "()", "calendar::void_trampoline"),
    Op("CalendarSignals", "Calendar", <<"next", "year">>, <<"next", "year">>,
       "-", <<"&Calendar">>, "()", "calendar::void_trampoline"),
    Op("CalendarSignals", "Calendar", <<"prev", "month">>, <<"prev", "month">>,
       "-", <<"&Calendar">>, "()", "calendar::void_trampoline"),
    Op("CalendarSignals", "Calendar", <<"prev", "year">>, <<"prev", "year">>,
       "-", <<"&Calendar">>, "()", "calendar::void_trampoline"),
    Op("StatusIconSignals", "StatusIcon", <<"activate">>, <<"activate">>, "",
       <<"&StatusIcon">>, "()", "status_icon::void_trampoline"),
    Op("StatusIconSignals", "StatusIcon", <<"button", "press", "event">>,
       <<"button", "press", "event">>, "-", <<"&StatusIcon", "&EventButton">>,
       "bool", "status_icon::event_trampoline"),
    Op("StatusIconSignals", "StatusIcon", <<"button", "release", "event">>,
       <<"button", "release", "event">>, "-", <<"&StatusIcon", "&EventButton">>,
       "bool", "status_icon::event_trampoline"),
    Op("StatusIconSignals", "StatusIcon", <<"popup", "menu">>,
       <<"popup", "menu">>, "-", <<"&StatusIcon", "u32", "u32">>, "()",
       "status_icon::popup_menu_trampoline"),
    Op("StatusIconSignals", "StatusIcon", <<"query", "tooltip">>,
       <<"query", "tooltip">>, "-",
       <<"&StatusIcon", "i32", "i32", "bool", "Tooltip">>, "bool",
       "status_icon::query_tooltip_trampoline"),
    Op("StatusIconSignals", "StatusIcon", <<"scroll", "event">>,
       <<"scroll", "event">>, "-", <<"&StatusIcon", "&EventScroll">>, "bool",
       "status_icon::event_trampoline"),
    Op("StatusIconSignals", "StatusIcon", <<"size", "changed">>,
       <<"size", "changed">>, "-", <<"&StatusIcon", "i32">>, "bool",
       "status_icon::size_changed_trampoline") }

ListBoxRowConnects == {
    Op("ListBoxRow", "ListBoxRow", <<"activate">>, <<"activate">>, "",
       <<"&ListBoxRow">>, "()", "activate_trampoline") }

Trampolines == {
    Tr("trampoline", <<>>, <<>>, "Continue", "gboolean", <<>>),
    Tr("widget::void_trampoline", <<>>, <<"&Widget">>, "()", "()", <<>>),
    Tr("widget::bool_trampoline", <<>>, <<"&Widget">>, "bool", "gboolean", <<>>),
    Tr("widget::accel_trampoline", <<"c_uint">>, <<"&Widget", "u64">>, "bool",
       "gboolean", <<<<"as u64", 1>>>>),
    Tr("widget::draw_trampoline", <<"*mut cairo_t">>, <<"&Widget", "&Context">>,
       "Inhibit", "gboolean", <<<<"wrap", 1>>>>),
    Tr("widget::event_any_trampoline", <<"*mut EventAny">>,
       <<"&Widget", "&EventAny">>, "Inhibit", "gboolean",
       <<<<"transmute", 1>>>>),
    Tr("widget::event_button_trampoline", <<"*mut EventAny">>,
       <<"&Widget", "&EventButton">>, "Inhibit", "gboolean",
       <<<<"transmute", 1>>>>),
    Tr("widget::event_configure_trampoline", <<"*mut EventAny">>,
       <<"&Widget", "&EventConfigure">>, "Inhibit", "gboolean",
       <<<<"transmute", 1>>>>),
    Tr("widget::event_crossing_trampoline", <<"*mut EventAny">>,
       <<"&Widget", "&EventCrossing">>, "Inhibit", "gboolean",
       <<<<"transmute", 1>>>>),
    Tr("widget::event_expose_trampoline", <<"*mut EventAny">>,
       <<"&Widget", "&EventExpose">>, "Inhibit", "gboolean",
       <<<<"transmute", 1>>>>),
    Tr("widget::event_focus_trampoline", <<"*mut EventAny">>,
       <<"&Widget", "&EventFocus">>, "Inhibit", "gboolean",
       <<<<"transmute", 1>>>>),
    Tr("widget::event_grab_broken_trampoline", <<"*mut EventAny">>,
       <<"&Widget", "&EventGrabBroken">>, "Inhibit", "gboolean",
       <<<<"transmute", 1>>>>),
    Tr("widget::event_key_trampoline", <<"*mut EventAny">>,
       <<"&Widget", "&EventKey">>, "Inhibit", "gboolean",
       <<<<"transmute", 1>>>>),
    Tr("widget::event_motion_trampoline", <<"*mut EventAny">>,
       <<"&Widget", "&EventMotion">>, "Inhibit", "gboolean",
       <<<<"transmute", 1>>>>),
    Tr("widget::event_property_trampoline", <<"*mut EventAny">>,
       <<"&Widget", "&EventProperty">>, "Inhibit", "gboolean",
       <<<<"transmute", 1>>>>),
    Tr("widget::event_proximity_trampoline", <<"*mut EventAny">>,
       <<"&Widget", "&EventProximity">>, "Inhibit", "gboolean",
       <<<<"transmute", 1>>>>),
    Tr("widget::event_scroll_trampoline", <<"*mut EventAny">>,
       <<"&Widget", "&EventScroll">>, "Inhibit", "gboolean",
       <<<<"transmute", 1>>>>),
    Tr("widget::event_window_state_trampoline", <<"*mut EventAny">>,
       <<"&Widget", "&EventWindowState">>, "Inhibit", "gboolean",
       <<<<"transmute", 1>>>>),
    Tr("widget::direction_trampoline", <<"DirectionType">>,
       <<"&Widget", "DirectionType">>, "Inhibit", "gboolean",
       <<<<"direct", 1>>>>),
    Tr("widget::direction_void_trampoline", <<"DirectionType">>,
       <<"&Widget", "DirectionType">>, "()", "()", <<<<"direct", 1>>>>),
    Tr("widget::grab_trampoline", <<"gboolean">>, <<"&Widget", "bool">>, "()",
       "()", <<<<"from_glib", 1>>>>),
    Tr("widget::help_trampoline", <<"WidgetHelpType">>,
       <<"&Widget", "WidgetHelpType">>, "bool", "gboolean", <<<<"direct", 1>>>>),
    Tr("widget::mnemonic_trampoline", <<"gboolean">>, <<"&Widget", "bool">>,
       "Inhibit", "gboolean", <<<<"from_glib", 1>>>>),
    Tr("widget::notify_trampoline", <<"*mut ParamSpec">>,
       <<"&Widget", "&ParamSpec">>, "()", "()", <<<<"transmute", 1>>>>),
    Tr("widget::query_trampoline",
       <<"c_int", "c_int", "gboolean", "*mut GtkTooltip">>,
       <<"&Widget", "i32", "i32", "bool", "Tooltip">>, "bool", "gboolean",
       <<<<"direct", 1>>, <<"direct", 2>>, <<"from_glib", 3>>, <<"const", 0>>>>),
    Tr("widget::rectangle_trampoline", <<"*mut RectangleInt">>,
       <<"&Widget", "&RectangleInt">>, "()", "()", <<<<"transmute", 1>>>>),
    Tr("widget::state_trampoline", <<"StateFlags">>,
       <<"&Widget", "StateFlags">>, "()", "()", <<<<"direct", 1>>>>),
    Tr("widget::screen_trampoline", <<"*mut GdkScreen">>,
       <<"&Widget", "&Screen">>, "()", "()", <<<<"wrap", 1>>>>),
    Tr("widget::text_direction_trampoline", <<"TextDirection">>,
       <<"&Widget", "TextDirection">>, "()", "()", <<<<"direct", 1>>>>),
    Tr("entry::void_trampoline", <<>>, <<"&Entry">>, "()", "()", <<>>),
    Tr("entry::delete_trampoline", <<"DeleteType", "i32">>,
       <<"&Entry", "DeleteType", "i32">>, "()", "()",
       <<<<"direct", 1>>, <<"direct", 2>>>>),
    Tr("entry::move_cursor_trampoline", <<"MovementStep", "i32", "bool">>,
       <<"&Entry", "MovementStep", "i32", "bool">>, "()", "()",
       <<<<"direct", 1>>, <<"direct", 2>>, <<"direct", 3>>>>),
    Tr("entry::string_trampoline", <<"*const c_char">>, <<"&Entry", "&str">>,
       "()", "()", <<<<"from_utf8", 1>>>>),
    Tr("button::void_trampoline", <<>>, <<"&Button">>, "()", "()", <<>>),
    Tr("combobox::void_trampoline", <<>>, <<"&ComboBox">>, "()", "()", <<>>),
    Tr("combobox::bool_trampoline", <<>>, <<"&ComboBox">>, "bool", "gboolean",
       <<>>),
    Tr("combobox::move_trampoline", <<"ScrollType">>,
       <<"&ComboBox", "ScrollType">>, "()", "()", <<<<"direct", 1>>>>),
    Tr("tool_button::void_trampoline", <<>>, <<"&ToolButton">>, "()", "()",
       <<>>),
    Tr("spin_button::void_trampoline", <<>>, <<"&SpinButton">>, "()", "()",
       <<>>),
    Tr("dialog::void_trampoline", <<>>, <<"&Dialog">>, "()", "()", <<>>),
    Tr("dialog::int_trampoline", <<"c_int">>, <<"&Dialog", "i32">>, "()", "()",
       <<<<"direct", 1>>>>),
    Tr("tree_view::void_trampoline", <<>>, <<"&TreeView">>, "()", "()", <<>>),
    Tr("tree_view::bool_trampoline", <<>>, <<"&TreeView">>, "bool", "gboolean",
       <<>>),
    Tr("tree_view::bool_bool_trampoline", <<"gboolean">>,
       <<"&TreeView", "bool">>, "bool", "gboolean", <<<<"from_glib", 1>>>>),
    Tr("tree_view::bool3_bool_trampoline",
       <<"gboolean", "gboolean", "gboolean">>,
       <<"&TreeView", "bool", "bool", "bool">>, "bool", "gboolean",
       <<<<"from_glib", 1>>, <<"from_glib", 2>>, <<"from_glib", 3>>>>),
    Tr("tree_view::path_column_trampoline",
       <<"*mut GtkTreePath", "*mut GtkTreeViewColumn">>,
       <<"&TreeView", "&mut TreePath", "&TreeViewColumn">>, "()", "()",
       <<<<"wrap", 1>>, <<"wrap", 2>>>>),
    Tr("tree_view::iter_path_trampoline",
       <<"*mut GtkTreeIter", "*mut GtkTreePath">>,
       <<"&TreeView", "&mut TreeIter", "&mut TreePath">>, "()", "()",
       <<<<"wrap", 1>>, <<"wrap", 2>>>>),
    Tr("tree_view::iter_path_bool_trampoline",
       <<"*mut GtkTreeIter", "*mut GtkTreePath">>,
       <<"&TreeView", "&mut TreeIter", "&mut TreePath">>, "bool", "gboolean",
       <<<<"wrap", 1>>, <<"wrap", 2>>>>),
    Tr("range::void_trampoline", <<>>, <<"&Range">>, "()", "()", <<>>),
    Tr("range::adjust_trampoline", <<"c_double">>, <<"&Range", "f64">>, "()",
       "()", <<<<"direct", 1>>>>),
    Tr("range::change_trampoline", <<"ScrollType", "c_double">>,
       <<"&Range", "ScrollType", "f64">>, "Inhibit", "gboolean",
       <<<<"direct", 1>>, <<"direct", 2>>>>),
    Tr("range::move_trampoline", <<"ScrollType">>, <<"&Range", "ScrollType">>,
       "()", "()", <<<<"direct", 1>>>>),
    Tr("adjustment_trampoline", <<>>, <<"&Adjustment">>, "()", "()", <<>>),
    Tr("tree_selection_trampoline", <<>>, <<"&TreeSelection">>, "()", "()",
       <<>>),
    Tr("tree_view_column_trampoline", <<>>, <<"&TreeViewColumn">>, "()", "()",
       <<>>),
    Tr("gl_area::gl_context_trampoline", <<>>, <<"&GLArea">>, "gdk::GLContext",
       "*mut gdk_ffi::GdkGLContext", <<>>),
    Tr("gl_area::gl_area_trampoline", <<"*mut gdk_ffi::GdkGLContext">>,
       <<"&GLArea", "gdk::GLContext">>, "()", "()", <<<<"wrap", 1>>>>),
    Tr("gl_area::gl_area_trampoline_res", <<"i32", "i32">>,
       <<"&GLArea", "i32", "i32">>, "()", "()",
       <<<<"direct", 1>>, <<"direct", 2>>>>),
    Tr("calendar::void_trampoline", <<>>, <<"&Calendar">>, "()", "()", <<>>),
    Tr("status_icon::void_trampoline", <<>>, <<"&StatusIcon">>, "()", "()",
       <<>>),
    Tr("status_icon::event_trampoline", <<"*mut EventButton">>,
       <<"&StatusIcon", "&EventScroll">>, "bool", "gboolean",
       <<<<"transmute", 1>>>>),
    Tr("status_icon::popup_menu_trampoline", <<"c_uint", "c_uint">>,
       <<"&StatusIcon", "u32", "u32">>, "()", "()",
       <<<<"direct", 1>>, <<"direct", 2>>>>),
    Tr("status_icon::query_tooltip_trampoline",
       <<"c_int", "c_int", "gboolean", "*mut GtkTooltip">>,
       <<"&StatusIcon", "i32", "i32", "bool", "Tooltip">>, "bool", "gboolean",
       <<<<"direct", 1>>, <<"direct", 2>>, <<"from_glib", 3>>, <<"const", 0>>>>),
    Tr("status_icon::size_changed_trampoline", <<"c_int">>,
       <<"&StatusIcon", "i32">>, "bool", "gboolean", <<<<"direct", 1>>>>) }

ListBoxRowTrampolines == {
    Tr("activate_trampoline", <<>>, <<"&ListBoxRow">>, "()", "()", <<>>) }

\* idle_add, timeout_add, timeout_add_seconds: the closure is boxed as
\* RefCell<Box<FnMut() -> Continue>> and paired with trampoline.
ScheduleOps == {
    Op("", "", <<"idle", "add">>, <<>>, "", <<>>, "Continue", "trampoline"),
    Op("", "", <<"timeout", "add">>, <<>>, "", <<>>, "Continue", "trampoline"),
    Op("", "", <<"timeout", "add", "seconds">>, <<>>, "", <<>>, "Continue",
       "trampoline") }

ConnectRows == Connects \cup ListBoxRowConnects
Tramp(name) == CHOOSE r \in Trampolines \cup ListBoxRowTrampolines : r.name = name

\* The names the native toolkit defines for a type: those of the type and of
\* its ancestors.
NativeSignalNames(type) == {c.name : c \in {r \in ConnectRows : IsA(type, r.on)}}

\* The values the native dispatcher can pass for a parameter.  A parameter
\* the trampoline declares as bool is a gboolean to the native caller.
CBoolTypes == {"gboolean", "bool"}
CIntTypes == {"c_int", "i32"}
CEnumTypes == {"DirectionType", "WidgetHelpType", "StateFlags", "TextDirection",
               "DeleteType", "MovementStep", "ScrollType"}
NativeValues(ctype) ==
    IF ctype \in CBoolTypes THEN {0, 1, 2, 256}
    ELSE IF ctype \in CIntTypes THEN {-1, 0, 7}
    ELSE IF ctype = "c_uint" THEN {0, 1, 2147483647}
    ELSE IF ctype = "c_double" THEN {0, 1}
    ELSE IF ctype \in CEnumTypes THEN {0, 1, 2}
    ELSE IF ctype = "*const c_char" THEN CStrings
    ELSE {1}

RECURSIVE NativeArgs(_)
NativeArgs(params) ==
    IF params = <<>> THEN {<<>>}
    ELSE {<<v>> \o r : v \in NativeValues(Head(params)), r \in NativeArgs(Tail(params))}

\* bool of a gboolean.
from_glib(g) == g # 0

\* A gboolean received in a parameter declared bool: the low byte is read
\* as a bool, and a byte other than 0 and 1 is no bool, so that the value
\* the closure sees is any (u).
bool_of_byte(g, u) ==
    IF g % 256 = 0 THEN FALSE ELSE IF g % 256 = 1 THEN TRUE ELSE u

\* One closure argument out of the native parameter v declared as ctype.
marshal_arg(conv, ctype, v, u) ==
    IF conv = "from_glib" THEN from_glib(v)
    ELSE IF conv = "const" THEN 0
    ELSE IF conv = "direct" /\ ctype = "bool" THEN bool_of_byte(v, u)
    ELSE v

marshal_args(tr, native, u) ==
    [i \in 1..Len(tr.how) |->
        LET conv == tr.how[i][1]
            of == tr.how[i][2]
        IN  IF of = 0 THEN marshal_arg(conv, "", 0, u)
            ELSE marshal_arg(conv, tr.params[of], native[of], u)]

\* What the closure can return: val is the boolean of a bool, Inhibit or
\* Continue, and FALSE for the other types.
ClosureReturns(ret) ==
    IF ret \in {"bool", "Inhibit", "Continue"}
    THEN {[ty |-> ret, val |-> b] : b \in BOOLEAN}
    ELSE {[ty |-> ret, val |-> FALSE]}

\* What the trampoline hands back for the closure's return value r: nothing
\* from a void trampoline, the pointer of to_glib_full, and the gboolean of
\* to_glib, which is read from a value the closure never produced (u) when
\* the closure that was boxed returns nothing.
marshal_result(tr, r, u) ==
    IF tr.ret = "()" THEN <<>>
    ELSE IF tr.ret # "gboolean" THEN <<1>>
    ELSE IF r.ty = "()" THEN <<to_glib(u)>>
    ELSE <<to_glib(r.val)>>

-----------------------------------------------------------------------------
(* Thread checks and the unwind guard *)

\* assert_initialized_main_thread!(): passes only on the thread that
\* initialised the toolkit.
assert_initialized_main_thread(t) == initialized /\ t = MainThread

\* Faulty variant: a guard macro without the thread assertion.
callback_guard_unchecked(t) == TRUE

\* callback_guard!(): the assertion is compiled in only with debug_assertions.
callback_guard(t) == debug_assertions => assert_initialized_main_thread(t)

\* Faulty variant: a guard whose drop ends the process with status 1.
CallbackGuard_drop_failure(isPanicking) ==
    IF isPanicking THEN <<1>> ELSE <<>>

\* Faulty variant: a guard whose drop never ends the process.
CallbackGuard_drop_returns(isPanicking) == <<>>

\* Drop for CallbackGuard: the exit status after the guard is dropped.
CallbackGuard_drop(isPanicking) ==
    IF isPanicking THEN <<PanicExitCode>> ELSE <<>>

-----------------------------------------------------------------------------
(* State helpers *)

Ids == 1..Len(handlers)
Addrs == 1..Len(heap)
Depth == Len(stack)
Alive == exit_status = <<>>
\* A panic of host code is unwinding: the thread runs destructors only.
Unwinding == panic.cause = "host"

NoPanic == [cause |-> "none", at |-> ""]
Panic(cause, at) == [cause |-> cause, at |-> at]
\* thread::panicking()
\* thread::panicking() on thread t: a panic is unwinding on t.  The panic of
\* host code is the panic of the thread it was raised on.
panicking(t) == panic.cause # "none" /\ (panic.cause = "host" => panic.at = t)

InFlight(id) == \E i \in 1..Len(stack) : stack[i].h = id
FramesOn(o) == Cardinality({i \in 1..Len(stack) : handlers[stack[i].h].obj = o})
\* A dispatch in progress: the handler, the thread, the native string
\* argument and what the closure got for it; for a signal handler also the
\* handlers the same emission has run before it, each with what its closure
\* returned, and the newest handler the emission started with.
Frame(id, t, raw, arg, ran, last) ==
    [h |-> id, thr |-> t, raw |-> raw, arg |-> arg, ran |-> ran, last |-> last]
Popped == SubSeq(stack, 1, Len(stack) - 1)

\* The memory of the process; nothing of it is left once the process exited.
Memory(objs, hp, hs, st) ==
    [objects |-> objs, heap |-> hp, handlers |-> hs, stack |-> st]
NoObjects == [o \in Objects |-> [st |-> "none", rc |-> 0]]
Gone == Memory(NoObjects, <<>>, <<>>, <<>>)
Commit(m) ==
    /\ objects' = m.objects
    /\ heap' = m.heap
    /\ handlers' = m.handlers
    /\ stack' = m.stack

\* Dropping the box at a raw pointer.
Free(hp, ptr) == [hp EXCEPT ![ptr].freed = @ + 1]

\* Faulty variant: the trampoline rebuilds the box from the pointer, so the
\* closure is dropped when the trampoline returns.
closure_taken(hp, ptr) == Free(hp, ptr)

\* A trampoline reads its user data as a reference to the boxed closure: the
\* box is borrowed for the call and stays where it is.
closure_ref(hp, ptr) == hp

\* Faulty variant: the address is taken from a borrow of the box, which is
\* dropped when the function returns.
into_raw_dropped(hp) == Append(hp, [freed |-> 1, id |-> 0, frail |-> 0])

\* Box::into_raw of the freshly boxed closure: it lives at a new address.
into_raw(hp) == Append(hp, [freed |-> 0, id |-> 0, frail |-> 0])

\* The destroy notification the native signal layer runs on a handler's
\* user data when the handler goes away for good.
signal_destroy_notify(hp, ptr) == Free(hp, ptr)

\* Faulty variant: destroy_closure without Box::from_raw: the box is never
\* dropped.
destroy_closure_leaks(hp, ptr, t) ==
    IF callback_guard(t)
    THEN [heap |-> hp, panic |-> NoPanic]
    ELSE [heap |-> hp, panic |-> Panic("wrong_thread", "destroy_closure")]

\* destroy_closure, the destroy notification of an idle/timeout source: the
\* guard, then the box is rebuilt from the pointer and dropped, which runs
\* the drop of what the closure captured and can panic there.
destroy_closure(hp, ptr, t) ==
    IF ~callback_guard(t)
    THEN [heap |-> hp, panic |-> Panic("wrong_thread", "destroy_closure")]
    ELSE IF hp[ptr].frail = 1
    THEN [heap |-> hp, panic |-> Panic("drop", "destroy_closure")]
    ELSE [heap |-> Free(hp, ptr), panic |-> NoPanic]

\* The native layer drops registration id for good and notifies its owner.
Notify(hs, hp, id, t) ==
    LET marked == [hs EXCEPT ![id].notified = TRUE]
    IN  IF hs[id].kind = "signal"
        THEN [handlers |-> marked,
              heap |-> signal_destroy_notify(hp, hs[id].data), panic |-> NoPanic]
        ELSE LET r == destroy_closure(hp, hs[id].data, t)
             IN  [handlers |-> IF r.panic = NoPanic THEN marked ELSE hs,
                  heap |-> r.heap, panic |-> r.panic]

\* A panic raised on a thread that is already unwinding: the runtime aborts
\* the process where the panic is raised, and no destructor runs.
AbortStatus == 134
Aborted == <<AbortStatus>>

\* The way out of a trampoline on thread t.  p is the panic raised in it
\* (NoPanic when none was); the guard is dropped on the way, and m is the
\* memory the process goes on with when the drop does not end it.
Leave(t, p, m) ==
    LET second == p # NoPanic /\ panic.cause = "host" /\ panicking(t)
        unwinding == p # NoPanic \/ panicking(t)
        status == IF second THEN Aborted ELSE CallbackGuard_drop(unwinding)
    IN  /\ panic' = IF p = NoPanic THEN panic ELSE p
        /\ exit_status' = status
        /\ escaped' = (escaped \/ (p # NoPanic /\ status = <<>>))
        /\ Commit(IF status = <<>> THEN m ELSE Gone)

\* Finalisation of object o: every handler it still has is dropped and its
\* destroy notification runs.
Finalized(hs, o) ==
    [i \in DOMAIN hs |->
        IF hs[i].obj = o /\ ~hs[i].notified
        THEN [hs[i] EXCEPT !.connected = FALSE, !.notified = TRUE]
        ELSE hs[i]]
FinalizedHeap(hs, hp, o) ==
    [a \in DOMAIN hp |->
        IF \E i \in DOMAIN hs : hs[i].obj = o /\ ~hs[i].notified /\ hs[i].data = a
        THEN signal_destroy_notify(hp, a)[a]
        ELSE hp[a]]

\* g_object_unref: the count drops, and at zero the object is finalised.
Unref(objs, hs, hp, o) ==
    IF objs[o].rc = 1
    THEN [objects |-> [objs EXCEPT ![o] = [st |-> "finalized", rc |-> 0]],
          handlers |-> Finalized(hs, o),
          heap |-> FinalizedHeap(hs, hp, o)]
    ELSE [objects |-> [objs EXCEPT ![o].rc = @ - 1], handlers |-> hs, heap |-> hp]

-----------------------------------------------------------------------------
(* Initial state *)

NoCall == [phase |-> "none"]

Init ==
    /\ initialized = FALSE
    /\ debug_assertions \in BOOLEAN
    /\ objects = NoObjects
    /\ heap = <<>>
    /\ handlers = <<>>
    /\ stack = <<>>
    /\ exit_status = <<>>
    /\ panic = NoPanic
    /\ escaped = FALSE
    /\ call = NoCall

-----------------------------------------------------------------------------
(* Host operations *)

\* gtk::init on the main thread.
init ==
    /\ Alive /\ ~Unwinding /\ ~initialized
    /\ initialized' = TRUE
    /\ UNCHANGED <<call, debug_assertions, objects, heap, handlers, stack,
                   exit_status, panic, escaped>>

\* A widget constructor: asserts the main thread, then creates the object
\* with the one reference the wrapper holds.
new ==
    \E o \in Objects, t \in Threads :
        /\ Alive /\ ~Unwinding /\ objects[o].st = "none"
        /\ assert_initialized_main_thread(t)
        /\ objects' = [objects EXCEPT ![o] = [st |-> "alive", rc |-> 1]]
        /\ UNCHANGED <<call, initialized, debug_assertions, heap, handlers, stack,
                       exit_status, panic, escaped>>

\* Dropping the wrapper releases the reference the host holds.
drop ==
    \E o \in Objects :
        /\ Alive /\ objects[o].st = "alive"
        /\ objects[o].rc - FramesOn(o) >= 1
        /\ LET r == Unref(objects, handlers, heap, o)
           IN  Commit(Memory(r.objects, r.heap, r.handlers, stack))
        /\ UNCHANGED <<call, initialized, debug_assertions, exit_status, panic, escaped>>

\* The native registration call behind connect: a handler under a fresh id
\* when the signal exists for the object's type, and no handler and id 0
\* when it does not.
NativeConnect(hs, o, sig, tramp, ptr) ==
    IF sig \in NativeSignals(TypeOf(o))
    THEN Append(hs, [kind |-> "signal", obj |-> o, sig |-> sig, tramp |-> tramp,
                     data |-> ptr, connected |-> TRUE, notified |-> FALSE,
                     calls |-> 0, stop_at |-> 0])
    ELSE hs

\* Faulty variant: connect_<name> boxing the closure twice and registering
\* only the second box.
connect_signal_leaky(c, o, t) ==
    LET boxed == into_raw(into_raw(heap))
        ptr == Len(boxed)
        hs == NativeConnect(handlers, o, c.sig, c.tramp, ptr)
        id == IF Len(hs) > Len(handlers) THEN Len(hs) ELSE 0
    IN  /\ handlers' = hs
        /\ heap' = [boxed EXCEPT ![ptr].id = id, ![ptr - 1].id = id]

\* Faulty variant: connect_<name> registering the boxed closure a second
\* time.
connect_signal_twice(c, o, t) ==
    LET boxed == into_raw(heap)
        ptr == Len(boxed)
        first == NativeConnect(handlers, o, c.sig, c.tramp, ptr)
        hs == NativeConnect(first, o, c.sig, c.tramp, ptr)
        id == IF Len(hs) > Len(handlers) THEN Len(hs) ELSE 0
    IN  /\ handlers' = hs
        /\ heap' = [boxed EXCEPT ![ptr].id = id]

\* connect_<name>: box the closure, register it with its trampoline and
\* return what the registration returned.  The calling thread t is not
\* consulted.
connect_signal(c, o, t) ==
    LET boxed == into_raw(heap)
        ptr == Len(boxed)
        hs == NativeConnect(handlers, o, c.sig, c.tramp, ptr)
        id == IF Len(hs) > Len(handlers) THEN Len(hs) ELSE 0
    IN  /\ handlers' = hs
        /\ heap' = [boxed EXCEPT ![ptr].id = id]

connect ==
    \E c \in ConnectOps, o \in Objects, t \in Threads :
        /\ Alive /\ ~Unwinding /\ objects[o].st = "alive"
        /\ IsA(TypeOf(o), c.on)
        /\ Len(heap) < MaxAllocs
        /\ connect_signal(c, o, t)
        /\ UNCHANGED <<call, initialized, debug_assertions, objects, stack,
                       exit_status, panic, escaped>>

\* The native call that attaches a source to the main loop (idle and
\* timeout sources differ in when the loop fires them, not in how).
NativeAttach(hs, ptr) ==
    Append(hs, [kind |-> "source", obj |-> 0, sig |-> "", tramp |-> "trampoline",
                data |-> ptr, connected |-> TRUE, notified |-> FALSE,
                calls |-> 0, stop_at |-> 0])

\* Faulty variant: the closure boxed and the source attached without the
\* assertion.
schedule_unasserted(t) ==
    /\ Alive /\ ~Unwinding
    /\ Len(heap) < MaxAllocs
    /\ LET boxed == into_raw(heap)
           ptr == Len(boxed)
           hs == NativeAttach(handlers, ptr)
       IN  /\ handlers' = hs
           /\ \E frail \in {0, 1} :
                 heap' = [boxed EXCEPT ![ptr].id = Len(hs), ![ptr].frail = frail]
    /\ UNCHANGED <<call, initialized, debug_assertions, objects, stack,
                   exit_status, panic, escaped>>

\* idle_add, timeout_add, timeout_add_seconds: assert the main thread, box
\* the closure and attach the source with trampoline and destroy_closure.
\* The closure given is any, also one whose drop panics (frail).
\* A failed assertion panics in the caller: nothing is boxed or attached.
schedule(t) ==
    /\ Alive /\ ~Unwinding
    /\ Len(heap) < MaxAllocs
    /\ IF assert_initialized_main_thread(t)
       THEN LET boxed == into_raw(heap)
                ptr == Len(boxed)
                hs == NativeAttach(handlers, ptr)
            IN  /\ handlers' = hs
                /\ \E frail \in {0, 1} :
                      heap' = [boxed EXCEPT ![ptr].id = Len(hs), ![ptr].frail = frail]
       ELSE UNCHANGED <<handlers, heap>>
    /\ UNCHANGED <<call, initialized, debug_assertions, objects, stack,
                   exit_status, panic, escaped>>

idle_add == \E t \in Threads : schedule(t)
timeout_add == \E t \in Threads : schedule(t)
timeout_add_seconds == \E t \in Threads : schedule(t)

-----------------------------------------------------------------------------
(* Disconnection *)

\* Faulty variant: a disconnect that runs the destroy notification of any
\* id it is given, registered or not.
disconnect_handler_again(id, t) ==
    IF id \in Ids /\ ~InFlight(id)
    THEN LET hs == [handlers EXCEPT ![id].connected = FALSE]
             r == Notify(hs, heap, id, t)
         IN  IF hs[id].kind = "signal"
             THEN /\ Commit(Memory(objects, r.heap, r.handlers, stack))
                  /\ UNCHANGED <<exit_status, panic, escaped>>
             ELSE Leave(t, r.panic, Memory(objects, r.heap, r.handlers, stack))
    ELSE UNCHANGED <<objects, handlers, heap, stack, exit_status, panic, escaped>>

\* disconnect(subscription): the native layer drops the registration and
\* runs its destroy notification, at once or, while the handler is being
\* dispatched, when that dispatch returns.  An id that is not registered
\* (any more) is left alone.
disconnect_handler(id, t) ==
    IF id \in Ids /\ handlers[id].connected
    THEN LET hs == [handlers EXCEPT ![id].connected = FALSE]
             r == Notify(hs, heap, id, t)
         IN  IF InFlight(id)
             THEN /\ handlers' = hs
                  /\ UNCHANGED <<objects, heap, stack, exit_status, panic, escaped>>
             ELSE IF hs[id].kind = "signal"
             THEN /\ Commit(Memory(objects, r.heap, r.handlers, stack))
                  /\ UNCHANGED <<exit_status, panic, escaped>>
             ELSE Leave(t, r.panic, Memory(objects, r.heap, r.handlers, stack))
    ELSE UNCHANGED <<objects, handlers, heap, stack, exit_status, panic, escaped>>

disconnect ==
    \E id \in 1..MaxAllocs, t \in Threads :
        /\ Alive
        /\ disconnect_handler(id, t)
        /\ UNCHANGED <<call, initialized, debug_assertions>>

-----------------------------------------------------------------------------
(* Dispatch *)

\* Faulty variant: the argument converted with String::from_utf8_lossy.
string_marshal_lossy(raw) == [ok |-> TRUE, val |-> from_utf8_lossy(raw)]

\* entry::string_trampoline's argument: CStr::from_ptr(c_str).to_bytes(),
\* then str::from_utf8(buf).unwrap().
string_marshal(raw) == [ok |-> from_utf8_ok(raw), val |-> raw]

\* A signal trampoline up to the call of the closure: the guard, the
\* argument marshalling, the wrapper of the emitting object.
signal_trampoline(id, t, raw) ==
    LET h == handlers[id]
        m == IF TakesString(h.tramp) THEN string_marshal(raw)
             ELSE [ok |-> TRUE, val |-> <<>>]
    IN  IF ~callback_guard(t)
        THEN Leave(t, Panic("wrong_thread", h.tramp), Memory(objects, heap, handlers, stack))
        ELSE IF ~m.ok
        THEN Leave(t, Panic("invalid_utf8", h.tramp), Memory(objects, heap, handlers, stack))
        ELSE /\ objects' = [objects EXCEPT ![h.obj].rc = @ + 1]
             /\ stack' = Append(stack, Frame(id, t, raw, m.val, <<>>, Len(handlers)))
             /\ UNCHANGED <<handlers, heap, exit_status, panic, escaped>>

\* The handlers of id's signal on id's object that are connected in hs.
Subscribers(hs, id) ==
    {j \in 1..Len(hs) : /\ hs[j].kind = "signal" /\ hs[j].connected
                         /\ hs[j].obj = hs[id].obj /\ hs[j].sig = hs[id].sig}

Lowest(S) == CHOOSE x \in S : \A y \in S : x <= y

\* The native emission of a signal starts with the handler that was
\* connected first.
emit ==
    \E id \in Ids, t \in Threads, raw \in CStrings :
        /\ Alive
        /\ handlers[id].kind = "signal" /\ handlers[id].connected
        /\ id = Lowest(Subscribers(handlers, id))
        /\ Depth < MaxDepth
        /\ (stack # <<>> => t = stack[Depth].thr)
        /\ (raw # <<>> => TakesString(handlers[id].tramp))
        /\ signal_trampoline(id, t, raw)
        /\ UNCHANGED <<call, initialized, debug_assertions>>

\* Faulty variant: trampoline with try_borrow_mut, answering FALSE without
\* a call when the closure is borrowed already.
trampoline_try_borrow(id, t) ==
    IF ~callback_guard(t)
    THEN Leave(t, Panic("wrong_thread", "trampoline"), Memory(objects, heap, handlers, stack))
    ELSE IF InFlight(id)
    THEN /\ handlers' = [handlers EXCEPT ![id].connected = FALSE]
         /\ UNCHANGED <<objects, heap, stack, exit_status, panic, escaped>>
    ELSE /\ handlers' = [handlers EXCEPT ![id].calls = @ + 1]
         /\ stack' = Append(stack, Frame(id, t, <<>>, <<>>, <<>>, 0))
         /\ UNCHANGED <<objects, heap, exit_status, panic, escaped>>

\* Faulty variant: trampoline calling the closure a second time once the
\* first call is under way.
trampoline_twice(id, t) ==
    IF ~callback_guard(t)
    THEN Leave(t, Panic("wrong_thread", "trampoline"), Memory(objects, heap, handlers, stack))
    ELSE IF InFlight(id)
    THEN Leave(t, Panic("already_borrowed", "trampoline"), Memory(objects, heap, handlers, stack))
    ELSE /\ handlers' = [handlers EXCEPT ![id].calls = @ + 2]
         /\ stack' = Append(stack, Frame(id, t, <<>>, <<>>, <<>>, 0))
         /\ UNCHANGED <<objects, heap, exit_status, panic, escaped>>

\* Faulty variant: trampoline calling the closure through a plain pointer,
\* without the RefCell borrow.
trampoline_unborrowed(id, t) ==
    IF ~callback_guard(t)
    THEN Leave(t, Panic("wrong_thread", "trampoline"), Memory(objects, heap, handlers, stack))
    ELSE /\ handlers' = [handlers EXCEPT ![id].calls = @ + 1]
         /\ stack' = Append(stack, Frame(id, t, <<>>, <<>>, <<>>, 0))
         /\ UNCHANGED <<objects, heap, exit_status, panic, escaped>>

\* trampoline (idle/timeout) up to the call of the closure: the guard, then
\* func.borrow_mut(), which panics while the closure is already borrowed.
trampoline(id, t) ==
    IF ~callback_guard(t)
    THEN Leave(t, Panic("wrong_thread", "trampoline"), Memory(objects, heap, handlers, stack))
    ELSE IF InFlight(id)
    THEN Leave(t, Panic("already_borrowed", "trampoline"), Memory(objects, heap, handlers, stack))
    ELSE /\ handlers' = [handlers EXCEPT ![id].calls = @ + 1]
         /\ stack' = Append(stack, Frame(id, t, <<>>, <<>>, <<>>, 0))
         /\ UNCHANGED <<objects, heap, exit_status, panic, escaped>>

\* The main loop dispatches an attached source, also from an iteration of
\* the loop that a running callback started.
dispatch ==
    \E id \in Ids, t \in Threads :
        /\ Alive
        /\ handlers[id].kind = "source" /\ handlers[id].connected
        /\ Depth < MaxDepth /\ handlers[id].calls < MaxCalls
        /\ (stack # <<>> => t = stack[Depth].thr)
        /\ trampoline(id, t)
        /\ UNCHANGED <<call, initialized, debug_assertions>>

\* Faulty variant: trampoline answering "remove the source" whatever the
\* closure said.
trampoline_result_false(continue) == to_glib(FALSE)

\* Faulty variant: trampoline answering "keep the source" whatever the
\* closure said.
trampoline_result_true(continue) == to_glib(TRUE)

\* What trampoline hands to the main loop: the closure's Continue as gboolean.
trampoline_result(continue) == to_glib(continue)

\* Faulty variant: a signal trampoline handing back the opposite gboolean.
signal_result_negated(tramp, v) ==
    IF ReturnsBool(tramp) THEN <<to_glib(~v)>> ELSE <<>>

\* What a signal trampoline hands to the native emission for the closure's
\* return value: f(..).to_glib() of an Inhibit, nothing of ().
signal_result(tramp, v) ==
    IF ReturnsBool(tramp) THEN <<to_glib(v)>> ELSE <<>>

\* The closure of the innermost signal dispatch returns v: the wrapper of
\* the emitting object is dropped, the guard is dropped, and the native
\* layer runs a destroy notification it had to defer.  The emission then
\* ends if the result is TRUE, and goes on with the next handler it started
\* with that is still connected if there is one: the same trampoline checks
\* on the same thread and the same arguments, and a wrapper for the call.
signal_return(f, v) ==
    LET id == f.h
        o == handlers[id].obj
        deferred == ~handlers[id].connected /\ ~handlers[id].notified
                    /\ ~\E i \in 1..(Len(stack) - 1) : stack[i].h = id
        hp == closure_ref(heap, handlers[id].data)
        n == IF deferred THEN Notify(handlers, hp, id, f.thr)
             ELSE [handlers |-> handlers, heap |-> hp, panic |-> NoPanic]
        r == Unref(objects, n.handlers, n.heap, o)
        result == signal_result(handlers[id].tramp, v)
        later == {j \in Subscribers(r.handlers, id) : j > id /\ j <= f.last}
    IN  IF result = <<1>> \/ later = {}
        THEN Leave(f.thr, NoPanic, Memory(r.objects, r.heap, r.handlers, Popped))
        ELSE Leave(f.thr, NoPanic,
                   Memory([r.objects EXCEPT ![o].rc = @ + 1], r.heap, r.handlers,
                          Append(Popped, Frame(Lowest(later), f.thr, f.raw, f.arg,
                                               Append(f.ran, <<id, v>>), f.last))))

\* The closure of the innermost source dispatch returns: the guard is
\* dropped, and the main loop destroys the source unless the result says
\* to keep it, which runs destroy_closure.
source_return(f, continue) ==
    LET id == f.h
        result == trampoline_result(continue)
        hs == [handlers EXCEPT
                  ![id].connected = @ /\ result # 0,
                  ![id].stop_at = IF continue THEN @ ELSE handlers[id].calls]
        hp == closure_ref(heap, handlers[id].data)
        n == IF ~hs[id].connected /\ ~hs[id].notified
             THEN Notify(hs, hp, id, f.thr)
             ELSE [handlers |-> hs, heap |-> hp, panic |-> NoPanic]
    IN  IF CallbackGuard_drop(panicking(f.thr)) # <<>>
        THEN Leave(f.thr, NoPanic, Memory(objects, heap, handlers, stack))
        ELSE Leave(f.thr, n.panic, Memory(objects, n.heap, n.handlers, Popped))

closure_return ==
    \E v \in BOOLEAN :
        /\ Alive /\ stack # <<>>
        /\ LET f == stack[Depth]
               h == handlers[f.h]
           IN  /\ (~ReturnsBool(h.tramp) => v = FALSE)
               /\ IF h.kind = "signal"
                  THEN signal_return(f, v)
                  ELSE source_return(f, v)
        /\ UNCHANGED <<call, initialized, debug_assertions>>

\* The closure of the innermost dispatch panics: the unwind reaches the
\* trampoline's guard.
closure_panic ==
    /\ Alive /\ stack # <<>>
    /\ Leave(stack[Depth].thr, Panic("closure", handlers[stack[Depth].h].tramp),
             Memory(objects, heap, handlers, Popped))
    /\ UNCHANGED <<call, initialized, debug_assertions>>

\* Host code panics outside every dispatch, on any thread: the assertion
\* of idle_add on the wrong thread, or any panic of the program's own.
host_panic ==
    \E t \in Threads :
        /\ Alive /\ panic = NoPanic /\ stack = <<>>
        /\ panic' = Panic("host", t)
        /\ UNCHANGED <<call, initialized, debug_assertions, objects, heap,
                       handlers, stack, exit_status, escaped>>

\* The unwinding of a host panic ends, at a catch_unwind or with its thread,
\* and the program goes on.
host_unwound ==
    /\ Alive /\ Unwinding /\ stack = <<>>
    /\ panic' = NoPanic
    /\ UNCHANGED <<call, initialized, debug_assertions, objects, heap,
                   handlers, stack, exit_status, escaped>>

-----------------------------------------------------------------------------
Next ==
    \/ init
    \/ new
    \/ drop
    \/ connect
    \/ idle_add
    \/ timeout_add
    \/ timeout_add_seconds
    \/ disconnect
    \/ emit
    \/ dispatch
    \/ closure_return
    \/ closure_panic
    \/ host_panic
    \/ host_unwound

Spec == Init /\ [][Next]_vars

-----------------------------------------------------------------------------
(* One registration and one invocation of any connect_* operation *)

\* connect_<name> or idle_add/timeout_add: the closure is boxed as the
\* operation says and registered with the operation's trampoline; the
\* native layer rejects a signal name the type does not have.
marshal_connect ==
    \E c \in ConnectRows \cup ScheduleOps :
        /\ call = NoCall
        /\ call' = [phase |-> IF c \in ScheduleOps \/ c.sig \in NativeSignalNames(c.on)
                              THEN "connected" ELSE "rejected",
                    op |-> c, tramp |-> Tramp(c.tramp)]
        /\ UNCHANGED <<initialized, debug_assertions, objects, heap, handlers,
                       stack, exit_status, panic, escaped>>

\* The native dispatcher calls the trampoline, which marshals the arguments
\* and calls the closure; str::from_utf8(..).unwrap() panics instead.
marshal_invoke ==
    /\ call.phase = "connected"
    /\ \E native \in NativeArgs(call.tramp.params), u \in BOOLEAN :
        LET tr == call.tramp
               utf8 == \A i \in 1..Len(tr.how) :
                          tr.how[i][1] = "from_utf8" => from_utf8_ok(native[tr.how[i][2]])
           IN  call' = IF utf8
                       THEN [phase |-> "invoked", op |-> call.op, tramp |-> tr,
                             native |-> native, args |-> marshal_args(tr, native, u)]
                       ELSE [phase |-> "exited", op |-> call.op, tramp |-> tr,
                             native |-> native]
    /\ UNCHANGED <<initialized, debug_assertions, objects, heap, handlers,
                       stack, exit_status, panic, escaped>>

\* The closure returns and the trampoline hands its result to the native
\* dispatcher.
marshal_return ==
    /\ call.phase = "invoked"
    /\ \E r \in ClosureReturns(call.op.boxed.ret), u \in BOOLEAN :
        call' = [phase |-> "returned", op |-> call.op, tramp |-> call.tramp,
                 native |-> call.native, args |-> call.args,
                 ret |-> r, result |-> marshal_result(call.tramp, r, u)]
    /\ UNCHANGED <<initialized, debug_assertions, objects, heap, handlers,
                       stack, exit_status, panic, escaped>>

NextMarshal ==
    \/ marshal_connect
    \/ marshal_invoke
    \/ marshal_return

SpecMarshal == Init /\ [][NextMarshal]_vars

-----------------------------------------------------------------------------
(* Integer conversions of IconSize and ResponseType (gtk/src/enums.rs) *)

\* The named variants of IconSize, in the order of their native constants
\* GTK_ICON_SIZE_INVALID = 0 .. GTK_ICON_SIZE_DIALOG = 6.
IconSizeVariants ==
    <<"Invalid", "Menu", "SmallToolbar", "LargeToolbar", "Button", "Dnd", "Dialog">>

\* The named variants of ResponseType, in the order of their native
\* constants GTK_RESPONSE_NONE = -1 .. GTK_RESPONSE_HELP = -11.
ResponseTypeVariants ==
    <<"None", "Reject", "Accept", "DeleteEvent", "Ok", "Cancel", "Close", "Yes",
      "No", "Apply", "Help">>

\* An enum value: <<variant>> of a named variant, <<"__Unknown", v>> of the
\* variant that carries the native integer.
Unknown(v) == <<"__Unknown", v>>

\* FromGlib<ffi::GtkIconSize> for IconSize: a native constant becomes its
\* variant, any other integer becomes __Unknown of it.
IconSize_from_glib(v) ==
    IF v \in 0..(Len(IconSizeVariants) - 1) THEN <<IconSizeVariants[v + 1]>>
    ELSE Unknown(v)

\* ToGlib for IconSize: a variant becomes its native constant, __Unknown(v)
\* becomes v.
IconSize_to_glib(e) ==
    IF e[1] = "__Unknown" THEN e[2]
    ELSE (CHOOSE i \in 1..Len(IconSizeVariants) : IconSizeVariants[i] = e[1]) - 1

\* FromGlib<ffi::GtkResponseType> for ResponseType.
ResponseType_from_glib(v) ==
    IF v \in (-Len(ResponseTypeVariants))..(-1) THEN <<ResponseTypeVariants[-v]>>
    ELSE Unknown(v)

\* ToGlib for ResponseType.
ResponseType_to_glib(e) ==
    IF e[1] = "__Unknown" THEN e[2]
    ELSE -(CHOOSE i \in 1..Len(ResponseTypeVariants) : ResponseTypeVariants[i] = e[1])

\* `as i32` and `as ffi::Gtk..` between i32 and the native enum type, a C
\* int: both are 32-bit signed integers, so the cast keeps the value.
as_c_int(v) == v

\* `as u8 as ffi::GtkIconSize`: the low byte of v.
as_u8(v) == v % 256

\* Faulty variant: unscaled() carrying 0, the constant of Invalid.
IconSize_unscaled_zero == Unknown(0)

\* IconSize::unscaled()
IconSize_unscaled == Unknown(-1)

\* Faulty variant: From<i32> for IconSize keeping the low byte only.
IconSize_from_i32_u8(val) == IconSize_from_glib(as_u8(val))

\* From<i32> for IconSize
IconSize_from_i32(val) == IconSize_from_glib(as_c_int(val))

\* From<IconSize> for i32
i32_from_IconSize(val) == as_c_int(IconSize_to_glib(val))

\* From<i32> for ResponseType
ResponseType_from_i32(val) == ResponseType_from_glib(as_c_int(val))

\* From<ResponseType> for i32
i32_from_ResponseType(val) == as_c_int(ResponseType_to_glib(val))

EnumTypes == {"IconSize", "ResponseType"}

\* The i32 values converted: every small integer, which covers all named
\* variants of both enums and unknown values around them, byte and short
\* boundaries, and the two ends of i32.
EnumInputs ==
    ((-MaxCode - 1)..MaxCode)
        \cup {-2147483647 - 1, -65536, -256, 255, 256, 65535, 65536, 2147483647}

\* <type>::from(x) of an i32 x.
enum_from ==
    \E type \in EnumTypes, x \in EnumInputs :
        /\ call = NoCall
        /\ call' = [phase |-> "from", type |-> type, arg |-> <<x>>,
                    value |-> IF type = "IconSize" THEN IconSize_from_i32(x)
                              ELSE ResponseType_from_i32(x)]
        /\ UNCHANGED <<initialized, debug_assertions, objects, heap, handlers,
                       stack, exit_status, panic, escaped>>

\* IconSize::unscaled()
enum_unscaled ==
    /\ call = NoCall
    /\ call' = [phase |-> "from", type |-> "IconSize", arg |-> <<>>,
                value |-> IconSize_unscaled]
    /\ UNCHANGED <<initialized, debug_assertions, objects, heap, handlers,
                   stack, exit_status, panic, escaped>>

\* i32::from(value) of the enum value obtained.
enum_into ==
    /\ call.phase = "from"
    /\ call' = [phase |-> "into", type |-> call.type, arg |-> call.arg,
                value |-> call.value,
                back |-> IF call.type = "IconSize" THEN i32_from_IconSize(call.value)
                         ELSE i32_from_ResponseType(call.value)]
    /\ UNCHANGED <<initialized, debug_assertions, objects, heap, handlers,
                   stack, exit_status, panic, escaped>>

\* The values are dropped.
enum_done ==
    /\ call.phase = "into"
    /\ call' = NoCall
    /\ UNCHANGED <<initialized, debug_assertions, objects, heap, handlers,
                   stack, exit_status, panic, escaped>>

NextEnums ==
    \/ enum_from
    \/ enum_unscaled
    \/ enum_into
    \/ enum_done

SpecEnums == Init /\ [][NextEnums]_vars

-----------------------------------------------------------------------------
(* Properties *)

StringFrames == {i \in 1..Len(stack) : TakesString(handlers[stack[i].h].tramp)}
SignalAddrs == {a \in Addrs : heap[a].id # 0 /\ handlers[heap[a].id].kind = "signal"}
SourceIds == {id \in Ids : handlers[id].kind = "source"}
Outstanding(S) == {a \in S : heap[a].freed = 0}

\* C1: a closure that panics during dispatch ends the process before the
\* trampoline it was called from returns, signal trampoline or idle/timeout
\* trampoline alike; no unwind crosses into the native caller.
C1_PanicEndsProcess ==
    /\ ~escaped
    /\ panic.cause = "closure" => ~Alive

C1_Witness ==
    /\ panic = Panic("closure", "trampoline")
    /\ exit_status = <<PanicExitCode>>

\* C2: every boxed closure handed to the native layer with a registration is
\* freed at most once, is freed exactly when its destroy notification ran,
\* and has been freed once its subscription is gone and no dispatch of it is
\* in progress.
C2_FreedExactlyOnce ==
    \A a \in Addrs :
        /\ heap[a].freed <= 1
        /\ heap[a].id # 0 =>
              LET h == handlers[heap[a].id]
              IN  /\ h.notified <=> heap[a].freed = 1
                  /\ h.data = a
                  /\ (~h.connected /\ ~InFlight(heap[a].id)) => heap[a].freed = 1

C2_Witness ==
    /\ Alive
    /\ \E a \in SignalAddrs : heap[a].freed = 1
    /\ \E id \in SourceIds : heap[handlers[id].data].freed = 1

\* C3: a dispatch starts only on a handler that is still connected, whose
\* object is alive and whose closure has not been freed, and the closure
\* stays unfreed for as long as it runs.
C3_DispatchOnlyLive ==
    /\ [](\A i \in 1..Len(stack) : heap[handlers[stack[i].h].data].freed = 0)
    /\ [][Len(stack') > Len(stack) =>
            LET h == handlers[stack'[Len(stack')].h]
            IN  /\ h.connected
                /\ heap[h.data].freed = 0
                /\ h.kind = "signal" =>
                      objects[h.obj].st = "alive" /\ objects[h.obj].rc > 0]_vars

C3_Witness ==
    /\ stack # <<>>
    /\ \E id \in Ids : handlers[id].notified

\* C4: once a signal connection is disconnected and is not being dispatched,
\* its closure is no longer allocated: connect followed at once by
\* disconnect leaves no closure allocation outstanding.
C4_ConnectDisconnectLeavesNothing ==
    \A a \in Outstanding(SignalAddrs) :
        handlers[heap[a].id].connected \/ InFlight(heap[a].id)

C4_Witness ==
    /\ Alive
    /\ SignalAddrs # {}
    /\ Outstanding(SignalAddrs) = {}
    /\ stack = <<>>

\* C5: disconnecting a subscription that is already disconnected changes
\* nothing, and no closure is ever freed twice.
C5_SecondDisconnectIsNoOp ==
    /\ \A a \in Addrs : heap[a].freed <= 1
    /\ \A id \in Ids, t \in Threads :
          (Alive /\ ~handlers[id].connected) =>
              ~ENABLED (/\ disconnect_handler(id, t)
                        /\ UNCHANGED <<call, initialized, debug_assertions>>
                        /\ vars' # vars)

C5_Witness ==
    /\ Alive
    /\ \E id \in Ids : /\ ~handlers[id].connected
                       /\ handlers[id].notified
                       /\ heap[handlers[id].data].freed = 1

\* C6: a connect_<name>, idle_add, timeout_add or timeout_add_seconds
\* attempted on a thread other than the main thread boxes no closure and
\* registers nothing.
C6_OnlyMainThreadRegisters ==
    [][\A t \in Threads \ {MainThread} :
          (\/ \E c \in ConnectOps, o \in Objects :
                 /\ Alive /\ objects[o].st = "alive"
                 /\ IsA(TypeOf(o), c.on)
                 /\ Len(heap) < MaxAllocs
                 /\ connect_signal(c, o, t)
           \/ schedule(t))
          => UNCHANGED <<heap, handlers>>]_vars

\* C7: a source whose closure returned Continue(false) on its N-th
\* invocation has been dispatched N times, is not attached any more and its
\* closure has been freed once.
C7_StopAfterN ==
    \A id \in SourceIds :
        handlers[id].stop_at # 0 =>
            /\ handlers[id].calls = handlers[id].stop_at
            /\ ~handlers[id].connected
            /\ handlers[id].notified
            /\ heap[handlers[id].data].freed = 1

C7_Witness ==
    \E id \in SourceIds : handlers[id].stop_at = 2 /\ handlers[id].calls = 2

\* C8: a closure whose native registration failed has been freed by the time
\* connect returns.
C8_FailedConnectFreesClosure ==
    \A a \in Addrs : heap[a].id = 0 => heap[a].freed = 1

\* C9: the closure of a string-argument signal runs only on the very bytes
\* the native layer passed, and only when they are well-formed UTF-8; the
\* conversion failing on ill-formed bytes ends the process with no closure
\* running.
C9_InvalidUtf8IsFatal ==
    /\ \A i \in StringFrames :
          stack[i].arg = stack[i].raw /\ from_utf8_ok(stack[i].raw)
    /\ panic.cause = "invalid_utf8" => ~Alive /\ stack = <<>>

C9_Witness ==
    /\ panic = Panic("invalid_utf8", "entry::string_trampoline")
    /\ exit_status = <<PanicExitCode>>

C11_NeverReentered ==
    \A id \in Ids : Cardinality({i \in 1..Len(stack) : stack[i].h = id}) <= 1

\* C11 (amended): the closure of an idle or timeout source never has two
\* invocations in progress at once: dispatching the source again from inside
\* its closure ends the process at borrow_mut.
C11_SourceNeverReentered ==
    /\ \A id \in SourceIds :
          Cardinality({i \in 1..Len(stack) : stack[i].h = id}) <= 1
    /\ panic.cause = "already_borrowed" => ~Alive

C11_Witness ==
    /\ panic = Panic("already_borrowed", "trampoline")
    /\ exit_status = <<PanicExitCode>>

\* C12: the closure of a successful connect stays allocated, at the address
\* its registration holds, for as long as the native layer has not run the
\* destroy notification of that very registration, whatever is dispatched,
\* connected or disconnected meanwhile.
C12_RetainedUntilDestroyNotify ==
    \A a \in Addrs :
        (heap[a].id # 0 /\ ~handlers[heap[a].id].notified) =>
            heap[a].freed = 0 /\ handlers[heap[a].id].data = a

C12_Witness ==
    \E id1, id2 \in Ids :
        /\ handlers[id1].notified
        /\ heap[handlers[id1].data].freed = 1
        /\ handlers[id2].kind = "signal"
        /\ ~handlers[id2].notified
        /\ heap[handlers[id2].data].freed = 0

-----------------------------------------------------------------------------
(* Marshalling: properties of SpecMarshal *)

BoolReturns == {"bool", "Inhibit", "Continue"}
NumberTypes == {"i32", "u32", "u64", "f64"}

\* C13: the closure type an operation boxes is the closure type its
\* trampoline reads the user-data as, and the trampoline returns a gboolean
\* exactly when the closure returns a boolean and nothing exactly when the
\* closure returns nothing.
C13_TrampolineReadsWhatWasBoxed ==
    call.phase # "none" =>
        /\ call.op.boxed = call.tramp.reads
        /\ (call.op.boxed.ret \in BoolReturns) = (call.tramp.ret = "gboolean")
        /\ (call.op.boxed.ret = "()") = (call.tramp.ret = "()")

\* C14: connect_<name> registers the signal named <name>, written with '-'
\* or '_', and the type of the handle has that signal.
C14_RegistersTheNamedSignal ==
    (call.phase # "none" /\ call.op \in ConnectRows) =>
        /\ call.op.sig = call.op.name
        /\ call.op.sep \in {"", "-", "_"}
        /\ call.op.sig \in NativeSignalNames(call.op.on)

\* C15: a trampoline that returns a gboolean returns TRUE exactly when the
\* closure returned true, Inhibit(true) or Continue(true).
C15_ResultKeepsPolarity ==
    (call.phase = "returned" /\ call.tramp.ret = "gboolean") =>
        call.result = <<to_glib(call.ret.ty \in BoolReturns /\ call.ret.val)>>

\* C16: the closure receives every number and every enum tag as the native
\* caller passed it, and every bool as true exactly when the native gboolean
\* is not 0.
C16_ArgumentsRoundTrip ==
    call.phase \in {"invoked", "returned"} =>
        \A i \in 1..Len(call.tramp.how) :
            LET ty == call.tramp.reads.args[i + 1]
                of == call.tramp.how[i][2]
            IN  of # 0 =>
                    IF ty = "bool" THEN call.args[i] = (call.native[of] # 0)
                    ELSE IF ty \in NumberTypes \cup CEnumTypes
                    THEN call.args[i] = call.native[of]
                    ELSE TRUE

-----------------------------------------------------------------------------
(* Emission order *)

\* The dispatches of handlers of an Inhibit-returning signal.
InhibitFrames == {i \in 1..Len(stack) : /\ handlers[stack[i].h].kind = "signal"
                                        /\ ReturnsBool(handlers[stack[i].h].tramp)}

\* While a subscriber runs, the subscribers the emission ran before it ran in
\* the order they were connected, each once, each returned Inhibit(false),
\* and no subscriber before it that is still connected was left out.
RanInOrder ==
    \A i \in InhibitFrames :
        LET f == stack[i]
        IN  /\ \A k \in 1..Len(f.ran) :
                  /\ f.ran[k][2] = FALSE
                  /\ f.ran[k][1] < f.h
                  /\ k > 1 => f.ran[k - 1][1] < f.ran[k][1]
            /\ \A j \in Subscribers(handlers, f.h) :
                  j < f.h => \E k \in 1..Len(f.ran) : f.ran[k][1] = j

\* A subscriber returning Inhibit(false) hands the emission to the next
\* subscriber that is still connected, if the emission started with one.
GoesOnAfterFalse ==
    (/\ stack # <<>>
     /\ Depth \in InhibitFrames
     /\ signal_return(stack[Depth], FALSE)
     /\ UNCHANGED <<call, initialized, debug_assertions>>) =>
        LET f == stack[Depth]
            later == {j \in Subscribers(handlers', f.h) : j > f.h /\ j <= f.last}
        IN  later # {} =>
                /\ Len(stack') = Len(stack)
                /\ stack'[Depth].h = Lowest(later)
                /\ stack'[Depth].ran = Append(f.ran, <<f.h, FALSE>>)

-----------------------------------------------------------------------------
(* Registration *)

\* C18: idle_add, timeout_add and timeout_add_seconds called from another
\* thread than the main thread, or before gtk::init, box no closure and
\* attach no source.
C18_ScheduleAssertsFirst ==
    [][\A t \in Threads :
          (~assert_initialized_main_thread(t) /\ schedule(t)) =>
              UNCHANGED <<heap, handlers>>]_vars

\* A source is attached from the main thread, and a call from the other
\* thread can be made and is refused.
C18_Witness ==
    /\ SourceIds # {}
    /\ ~assert_initialized_main_thread("other")
    /\ ENABLED (schedule("other") /\ UNCHANGED <<heap, handlers>>)
    /\ ~ENABLED (schedule("other") /\ heap' # heap)

-----------------------------------------------------------------------------
(* Synchronous dispatch *)

\* The closure calls of source id that a step starts.
Started(id) ==
    IF id <= Len(handlers') THEN handlers'[id].calls - handlers[id].calls ELSE 0

\* C20: a native invocation of a trampoline starts one call of its closure
\* and no more, the call stays in progress until the closure returns or
\* panics, and only the innermost call in progress ends: no step starts a
\* call without a frame for it, repeats a call or drops a call in progress.
C20_DispatchIsSynchronous ==
    [][/\ Len(stack') <= Len(stack) + 1
       /\ Len(stack') = Len(stack) + 1 => SubSeq(stack', 1, Len(stack)) = stack
       /\ (Len(stack') <= Len(stack) /\ exit_status' = <<>>) =>
              /\ stack # <<>> => Len(stack') >= Len(stack) - 1
              /\ SubSeq(stack', 1, Len(stack) - 1) = SubSeq(stack, 1, Len(stack) - 1)
       /\ \A id \in SourceIds :
              Started(id) = IF /\ Len(stack') = Len(stack) + 1
                               /\ stack'[Len(stack')].h = id
                            THEN 1 ELSE 0]_vars

\* The closure of a source runs in the second native invocation of its
\* trampoline.
C20_Witness ==
    \E id \in SourceIds :
        /\ handlers[id].calls = 2
        /\ Depth = 1 /\ stack[1].h = id

-----------------------------------------------------------------------------
(* Panics and the guard *)

\* C21: a dispatch whose closure returns normally leaves the process
\* running, whatever was unwinding on the thread when the trampoline was
\* entered; only a destroy_closure that the return brings about and that
\* panics itself may end it.
C21_NormalReturnKeepsRunning ==
    [][\A v \in BOOLEAN :
          (/\ Alive /\ stack # <<>>
           /\ IF handlers[stack[Depth].h].kind = "signal"
              THEN signal_return(stack[Depth], v)
              ELSE source_return(stack[Depth], v)) =>
              exit_status' = <<>> \/ panic'.at = "destroy_closure"]_vars

\* The panics that are raised in a dispatch or in destroy_closure.
DispatchPanics == {"closure", "wrong_thread", "invalid_utf8", "already_borrowed", "drop"}

\* C22 (as stated): a panic in a dispatch or in destroy_closure ends the
\* process with status 101.
C22_PanicExitsWith101 ==
    panic.cause \in DispatchPanics => exit_status = <<PanicExitCode>>

\* C22 (amended): a panic raised in a dispatch or in destroy_closure while no
\* panic is unwinding already ends the process with status 101.
C22_FirstPanicExitsWith101 ==
    [][(panic = NoPanic /\ panic'.cause \in DispatchPanics) =>
           exit_status' = <<PanicExitCode>>]_vars

\* The drop of a boxed closure panicked in destroy_closure.
C22_Witness ==
    /\ panic = Panic("drop", "destroy_closure")
    /\ exit_status = <<PanicExitCode>>

\* C23: dispatching an idle/timeout source again while its closure is still
\* running does not run the closure: the borrow fails in trampoline and the
\* process ends there, with status 101 when nothing else was unwinding.
C23_ReentrantSourceDispatchEnds ==
    [][\A id \in SourceIds, t \in Threads :
          (Alive /\ InFlight(id) /\ trampoline(id, t)) =>
              /\ ~Alive' /\ stack' = <<>>
              /\ panic'.at = "trampoline"
              /\ panic = NoPanic => exit_status' = <<PanicExitCode>>]_vars

\* The borrow failed in a build that makes no thread check.
C23_Witness ==
    /\ ~debug_assertions
    /\ panic.cause = "already_borrowed"
    /\ ~Alive /\ stack = <<>>

-----------------------------------------------------------------------------
(* Frame of a dispatch *)

\* What the native layer holds of registration h: whether it is connected,
\* whether its destroy notification ran, and the address of its closure.
Registration(h) == <<h.kind, h.obj, h.sig, h.tramp, h.data, h.connected, h.notified>>

\* The closure of the innermost dispatch returns v.
Returns(v) ==
    /\ Alive /\ stack # <<>>
    /\ IF handlers[stack[Depth].h].kind = "signal"
       THEN signal_return(stack[Depth], v)
       ELSE source_return(stack[Depth], v)

\* C24: entering a trampoline and calling the closure changes no
\* registration and no closure allocation; when the closure returns, a
\* registration changes only by being dropped by the native layer with its
\* destroy notification; and no step frees a closure except by the destroy
\* notification of its registration: the trampolines only borrow the boxed
\* closure.
C24_DispatchOnlyBorrows ==
    [][/\ \A v \in BOOLEAN :
              (Returns(v) /\ exit_status' = <<>>) =>
                  \A id \in Ids :
                      Registration(handlers'[id]) # Registration(handlers[id]) =>
                          ~handlers'[id].connected /\ handlers'[id].notified
       /\ Len(stack') > Len(stack) =>
              /\ heap' = heap
              /\ Len(handlers') = Len(handlers)
              /\ \A id \in Ids : Registration(handlers'[id]) = Registration(handlers[id])
       /\ \A a \in Addrs :
              (a <= Len(heap') /\ heap'[a].freed # heap[a].freed) =>
                  /\ heap[a].id # 0
                  /\ ~handlers[heap[a].id].notified
                  /\ handlers'[heap[a].id].notified]_vars

\* A source has been dispatched, its closure has returned Continue(true) and
\* is allocated and registered as before.
C24_Witness ==
    \E id \in SourceIds :
        /\ handlers[id].calls = 1 /\ ~InFlight(id)
        /\ handlers[id].connected /\ ~handlers[id].notified
        /\ heap[handlers[id].data].freed = 0

-----------------------------------------------------------------------------
(* Recurring sources *)

\* C25: when the closure of an attached source returns Continue(true) the
\* source stays attached and its closure allocated, and a later firing of
\* an attached source whose closure is not running calls the closure again.
C25_StaysArmedWhileContinue ==
    [][/\ (/\ Returns(TRUE)
           /\ handlers[stack[Depth].h].kind = "source"
           /\ handlers[stack[Depth].h].connected
           /\ exit_status' = <<>>) =>
              LET id == stack[Depth].h
              IN  /\ handlers'[id].connected /\ ~handlers'[id].notified
                  /\ heap'[handlers'[id].data].freed = 0
                  /\ handlers'[id].stop_at = 0
       /\ \A id \in SourceIds, t \in Threads :
              (/\ Alive /\ handlers[id].connected /\ ~InFlight(id)
               /\ callback_guard(t)
               /\ trampoline(id, t)) =>
                  /\ stack' = Append(stack, Frame(id, t, <<>>, <<>>, <<>>, 0))
                  /\ handlers'[id].calls = handlers[id].calls + 1
                  /\ heap' = heap]_vars

\* A source whose closure returned Continue(true) twice is still attached.
C25_Witness ==
    \E id \in SourceIds :
        /\ handlers[id].calls = 2 /\ handlers[id].stop_at = 0
        /\ ~InFlight(id)
        /\ handlers[id].connected
        /\ heap[handlers[id].data].freed = 0

-----------------------------------------------------------------------------
(* Enum conversions *)

C27_UnscaledIsMinusOne ==
    /\ (call.phase = "into" /\ call.arg = <<>>) =>
           call.value = Unknown(-1) /\ call.back = -1
    /\ (call.phase \in {"from", "into"} /\ call.type = "IconSize"
        /\ call.arg = <<-1>>) => call.value = IconSize_unscaled

\* unscaled() was converted to i32.
C27_Witness ==
    /\ call.phase = "into" /\ call.arg = <<>>
    /\ call.value = IconSize_unscaled /\ call.back = -1

====
